---------------------------- MODULE Spec2Model ----------------------------
(* A model of outflux (src/src/lib.rs): the MeasurementBuilder, the line   *)
(* protocol rendering of FieldValue and Measurement, the two escaping      *)
(* functions, and the body Bucket::write sends.                            *)
(*                                                                         *)
(* A Rust String is a sequence of Unicode scalar values (naturals); the    *)
(* byte order of UTF-8 strings is the lexicographic order of these.        *)
(* A BTreeMap is a function whose domain is its key set; iterating it      *)
(* visits the keys in ascending order.                                     *)
EXTENDS Integers, Sequences, FiniteSets, TLC

VARIABLES
    builder,   \* the MeasurementBuilder in hand (lib.rs 95-100), or Consumed
    clock,     \* what SystemTime::now() reads (lib.rs 136)
    result,    \* what build(), or a failed timestamp(), returned (lib.rs 122-147)
    line,      \* what to_string() of the built Measurement returned (lib.rs 176-214)
    hist,      \* the calls made on the builder so far (auxiliary)
    batch,     \* the slice of Measurements given to Bucket::write (lib.rs 224)
    body,      \* the body Bucket::write sent (lib.rs 229)
    response,  \* what Bucket::write returned (lib.rs 235-242)
    input,     \* the FieldValue, or the string in it, a function is applied to
    output,    \* what the function returned
    op         \* the function that was applied

vars == <<builder, clock, result, line, hist, batch, body, response,
          input, output, op>>

---------------------------------------------------------------------------
(* Bounds of the model.                                                    *)

\* longest input string of the escaping functions
MaxLen == 3
\* largest instant (nanoseconds after the epoch) of the clock and of timestamp()
MaxTime == 2
\* longest slice of Measurements handed to Bucket::write
MaxBatch == 2

---------------------------------------------------------------------------
(* Characters.                                                             *)

Comma == 44
Equals == 61
Space == 32
Backslash == 92
Quote == 34
Newline == 10
Minus == 45
Dot == 46
Zero == 48
LetterA == 97
LetterF == 102
LetterI == 105
LetterM == 109
LetterN == 110
LetterT == 116
LetterU == 117
UpperN == 78
Rocket == 128640

Digits == Zero .. (Zero + 9)

\* the characters the inputs of the escaping functions are drawn from
Alphabet == {Comma, Equals, Space, Backslash, Quote, LetterA, Rocket}

RECURSIVE StringsOfLen(_)
StringsOfLen(n) ==
    IF n = 0 THEN {<<>>}
    ELSE {Append(s, c) : s \in StringsOfLen(n - 1), c \in Alphabet}

Strings == UNION {StringsOfLen(n) : n \in 0 .. MaxLen}

---------------------------------------------------------------------------
(* Option and Result.                                                      *)

None == [some |-> FALSE]
Some(x) == [some |-> TRUE, val |-> x]

Ok(x) == [tag |-> "Ok", val |-> x]
Err(e) == [tag |-> "Err", err |-> e]
NoResult == [tag |-> "NoResult"]

---------------------------------------------------------------------------
(* Library functions the code calls.                                       *)

\* str::replace with a one-character pattern: every occurrence, left to right
RECURSIVE Replace(_, _, _)
Replace(s, from, to) ==
    IF s = <<>> THEN <<>>
    ELSE (IF Head(s) = from THEN to ELSE <<Head(s)>>) \o Replace(Tail(s), from, to)

\* the decimal digits of a natural number, as "{}" formats an unsigned integer
RECURSIVE ToDecimal(_)
ToDecimal(n) ==
    IF n < 10 THEN <<Zero + n>>
    ELSE ToDecimal(n \div 10) \o <<Zero + (n % 10)>>

\* "{}" of a signed integer
SignedToDecimal(i) ==
    IF i < 0 THEN <<Minus>> \o ToDecimal(0 - i) ELSE ToDecimal(i)

\* n copies of the character 0
RECURSIVE Zeros(_)
Zeros(n) == IF n <= 0 THEN <<>> ELSE <<Zero>> \o Zeros(n - 1)

\* the characters of a digit sequence
DigitChars(ds) == [i \in 1 .. Len(ds) |-> Zero + ds[i]]

\* "{}" of an f64. A float is nan, an infinity, or finite with the shortest
\* decimal digits ds and the exponent e of 0.ds * 10^e (no digits: zero).
\* Display never uses an exponent.
FloatToString(f) ==
    CASE f.class = "nan" -> <<UpperN, LetterA, UpperN>>
      [] f.class = "inf" ->
            (IF f.neg THEN <<Minus>> ELSE <<>>) \o <<LetterI, LetterN, LetterF>>
      [] OTHER ->
            (IF f.neg THEN <<Minus>> ELSE <<>>) \o
            (IF f.digits = <<>> THEN <<Zero>>
             ELSE IF f.exp <= 0
                  THEN <<Zero, Dot>> \o Zeros(0 - f.exp) \o DigitChars(f.digits)
             ELSE IF f.exp < Len(f.digits)
                  THEN DigitChars(SubSeq(f.digits, 1, f.exp)) \o <<Dot>> \o
                       DigitChars(SubSeq(f.digits, f.exp + 1, Len(f.digits)))
             ELSE DigitChars(f.digits) \o Zeros(f.exp - Len(f.digits)))

\* the order of String keys in a BTreeMap
RECURSIVE StrLess(_, _)
StrLess(a, b) ==
    IF b = <<>> THEN FALSE
    ELSE IF a = <<>> THEN TRUE
    ELSE IF Head(a) # Head(b) THEN Head(a) < Head(b)
    ELSE StrLess(Tail(a), Tail(b))

\* BTreeMap::iter: the keys in ascending order
RECURSIVE KeysInOrder(_)
KeysInOrder(keys) ==
    IF keys = {} THEN <<>>
    ELSE LET least == CHOOSE k \in keys : \A o \in keys \ {k} : StrLess(k, o)
         IN  <<least>> \o KeysInOrder(keys \ {least})

\* [String]::join
RECURSIVE Join(_, _)
Join(parts, sep) ==
    IF parts = <<>> THEN <<>>
    ELSE IF Len(parts) = 1 THEN parts[1]
    ELSE parts[1] \o sep \o Join(Tail(parts), sep)

---------------------------------------------------------------------------
(* Escaping.                                                               *)

\* a variant with a fourth pass, over the backslashes the first three inserted
escape_comma_equals_space_double(tag_key) ==
    Replace(Replace(Replace(Replace(tag_key, Comma, <<Backslash, Comma>>),
                            Equals, <<Backslash, Equals>>),
                    Space, <<Backslash, Space>>),
            Backslash, <<Backslash, Backslash>>)

escape_comma_equals_space(tag_key) ==
    Replace(Replace(Replace(tag_key, Comma, <<Backslash, Comma>>),
                    Equals, <<Backslash, Equals>>),
            Space, <<Backslash, Space>>)

\* a variant with the two passes in the other order
escape_field_value_quote_first(field_value) ==
    Replace(Replace(field_value, Quote, <<Backslash, Quote>>),
            Backslash, <<Backslash, Backslash>>)

escape_field_value(field_value) ==
    Replace(Replace(field_value, Backslash, <<Backslash, Backslash>>),
            Quote, <<Backslash, Quote>>)

\* a variant that escapes the name as a key is escaped
escaped_name_with_equals(name) ==
    Replace(Replace(Replace(name, Comma, <<Backslash, Comma>>),
                    Equals, <<Backslash, Equals>>),
            Space, <<Backslash, Space>>)

escaped_name(name) ==
    Replace(Replace(name, Comma, <<Backslash, Comma>>), Space, <<Backslash, Space>>)

---------------------------------------------------------------------------
(* FieldValue.                                                             *)

\* an f64: not a number, an infinity, or finite: the sign, the shortest
\* decimal digits ds and the exponent e of 0.ds * 10^e (no digits: zero)
Finite(neg, digits, exp) ==
    [class |-> "finite", neg |-> neg, digits |-> digits, exp |-> exp]
NaN == [class |-> "nan", neg |-> FALSE, digits |-> <<>>, exp |-> 0]
Infinity(neg) == [class |-> "inf", neg |-> neg, digits |-> <<>>, exp |-> 0]

\* a FieldValue: kind names the variant, and the variant's payload is the
\* field of its type (the other fields are padding)
NoPayload ==
    [kind |-> "", float |-> Finite(FALSE, <<>>, 0), int |-> 0, str |-> <<>>,
     bool |-> FALSE]
Float(f) == [NoPayload EXCEPT !.kind = "Float", !.float = f]
Integer(i) == [NoPayload EXCEPT !.kind = "Integer", !.int = i]
UInteger(u) == [NoPayload EXCEPT !.kind = "UInteger", !.int = u]
String(s) == [NoPayload EXCEPT !.kind = "String", !.str = s]
Boolean(b) == [NoPayload EXCEPT !.kind = "Boolean", !.bool = b]

FieldValue_to_string(v) ==
    CASE v.kind = "Float" -> FloatToString(v.float)
      [] v.kind = "Integer" -> SignedToDecimal(v.int) \o <<LetterI>>
      [] v.kind = "UInteger" -> ToDecimal(v.int) \o <<LetterU>>
      [] v.kind = "String" -> <<Quote>> \o escape_field_value(v.str) \o <<Quote>>
      [] v.kind = "Boolean" -> IF v.bool THEN <<LetterT>> ELSE <<LetterF>>


---------------------------------------------------------------------------
(* Measurement.                                                            *)

Measurement(name, fields, tags, unix_timestamp) ==
    [name |-> name, fields |-> fields, tags |-> tags,
     unix_timestamp |-> unix_timestamp]

\* format!("{}={}", ...) over self.tags.iter()
optional_tags(m) ==
    LET ks == KeysInOrder(DOMAIN m.tags)
    IN  [i \in 1 .. Len(ks) |->
            escape_comma_equals_space(ks[i]) \o <<Equals>> \o
            escape_comma_equals_space(m.tags[ks[i]])]

\* format!("{}={}", ...) over self.fields.iter()
rendered_fields(m) ==
    LET ks == KeysInOrder(DOMAIN m.fields)
    IN  [i \in 1 .. Len(ks) |->
            escape_comma_equals_space(ks[i]) \o <<Equals>> \o
            FieldValue_to_string(m.fields[ks[i]])]

\* a variant without the is_empty test
tags_str_always_comma(tag_list) ==
    <<Comma>> \o Join(tag_list, <<Comma>>)

tags_str(tag_list) ==
    IF tag_list = <<>> THEN <<>> ELSE <<Comma>> \o Join(tag_list, <<Comma>>)

Measurement_to_string(m) ==
    escaped_name(m.name) \o tags_str(optional_tags(m)) \o <<Space>> \o
    Join(rendered_fields(m), <<Comma>>) \o <<Space>> \o
    ToDecimal(m.unix_timestamp)

---------------------------------------------------------------------------
(* MeasurementBuilder.                                                     *)

\* SystemTime::duration_since(UNIX_EPOCH), an instant being its distance in
\* nanoseconds from the epoch (negative: before it)
duration_since_epoch(instant) ==
    IF instant < 0 THEN Err("SystemTimeError") ELSE Ok(instant)

MeasurementBuilder_new(name) ==
    [name |-> name, fields |-> None, tags |-> None, unix_timestamp |-> None]

\* a variant that extends the field set instead of replacing it
MeasurementBuilder_fields_merge(self, fields) ==
    [self EXCEPT !.fields =
        Some(IF self.fields.some THEN fields @@ self.fields.val ELSE fields)]

MeasurementBuilder_fields(self, fields) ==
    [self EXCEPT !.fields = Some(fields)]

MeasurementBuilder_tags(self, tags) ==
    [self EXCEPT !.tags = Some(tags)]

\* a variant that keeps a timestamp already set
MeasurementBuilder_timestamp_keep_first(self, timestamp) ==
    LET d == duration_since_epoch(timestamp)
    IN  IF d.tag = "Err" THEN d
        ELSE IF self.unix_timestamp.some THEN Ok(self)
        ELSE Ok([self EXCEPT !.unix_timestamp = Some(d.val)])

MeasurementBuilder_timestamp(self, timestamp) ==
    LET d == duration_since_epoch(timestamp)
    IN  IF d.tag = "Err" THEN d
        ELSE Ok([self EXCEPT !.unix_timestamp = Some(d.val)])

\* a variant without the is_empty arm
MeasurementBuilder_build_none_only(self, now) ==
    IF ~self.fields.some
    THEN [result |-> Err("AtLeastOneMeasurementFieldRequired"), read |-> FALSE]
    ELSE LET d == IF self.unix_timestamp.some THEN Ok(self.unix_timestamp.val)
                  ELSE duration_since_epoch(now)
         IN  [result |->
                 IF d.tag = "Err" THEN d
                 ELSE Ok(Measurement(self.name, self.fields.val,
                                     IF self.tags.some THEN self.tags.val ELSE <<>>,
                                     d.val)),
              read |-> ~self.unix_timestamp.some]

\* a variant whose default timestamp is the epoch, the clock not being read
MeasurementBuilder_build_epoch_default(self, now) ==
    IF ~self.fields.some \/ DOMAIN self.fields.val = {}
    THEN [result |-> Err("AtLeastOneMeasurementFieldRequired"), read |-> FALSE]
    ELSE [result |->
             Ok(Measurement(self.name, self.fields.val,
                            IF self.tags.some THEN self.tags.val ELSE <<>>,
                            IF self.unix_timestamp.some
                            THEN self.unix_timestamp.val ELSE 0)),
          read |-> FALSE]

\* build(self) with `now` what SystemTime::now() returns if it is called;
\* read tells whether it was called
MeasurementBuilder_build(self, now) ==
    IF ~self.fields.some \/ DOMAIN self.fields.val = {}
    THEN [result |-> Err("AtLeastOneMeasurementFieldRequired"), read |-> FALSE]
    ELSE LET d == IF self.unix_timestamp.some THEN Ok(self.unix_timestamp.val)
                  ELSE duration_since_epoch(now)
         IN  [result |->
                 IF d.tag = "Err" THEN d
                 ELSE Ok(Measurement(self.name, self.fields.val,
                                     IF self.tags.some THEN self.tags.val ELSE <<>>,
                                     d.val)),
              read |-> ~self.unix_timestamp.some]

\* a builder that was moved out of: by build(), or by a failed timestamp()
Consumed == [consumed |-> TRUE]

---------------------------------------------------------------------------
(* Inputs.                                                                 *)

Names ==
    { <<LetterM>>,
      <<LetterM, Space, LetterA>>,
      <<Comma, Equals>>,
      <<Newline, LetterM>> }

FieldMaps ==
    { <<>>,
      (<<LetterF>> :> Integer(0 - 12)),
      (<<LetterF, Space>> :> String(<<Quote, LetterA, Newline>>)) @@
      (<<LetterA, Equals>> :> Float(Finite(FALSE, <<1, 5>>, 1))),
      (<<LetterF>> :> UInteger(100)) @@ (<<LetterA>> :> Boolean(TRUE)) @@
      (<<LetterA, LetterA>> :> Boolean(FALSE)) }

TagMaps ==
    { <<>>,
      (<<LetterT, Space>> :> <<LetterA, Comma>>),
      (<<LetterT>> :> <<Rocket>>) @@ (<<LetterA, Equals>> :> <<LetterA, Space>>) }

\* what the system clock can read, and the instants timestamp() is given:
\* nanoseconds from the epoch, -1 being an instant before it
Instants == (0 - 1) .. MaxTime

---------------------------------------------------------------------------
(* The builder, from Measurement::builder to to_string.                    *)

\* what was called on the builder so far: the last call, the argument of the
\* last fields(), tags() and timestamp(), the clock reading build() took,
\* whether a call replaced the different argument of an earlier call, and
\* the timestamps build() took from the clock, the last two
NoHistory(prev, cur) ==
    [call |-> "builder", fields |-> None, tags |-> None, timestamp |-> None,
     now |-> None, replaced |-> FALSE, prev |-> prev, cur |-> cur]

\* Measurement::builder(name)
NewBuilder(name) ==
    /\ builder' = MeasurementBuilder_new(name)
    /\ result' = NoResult
    /\ line' = None
    /\ hist' = NoHistory(hist.prev, hist.cur)
    /\ UNCHANGED <<clock, batch, body, response, input, output, op>>

\* builder.fields(map)
Fields(map) ==
    /\ builder # Consumed
    /\ builder' = MeasurementBuilder_fields(builder, map)
    /\ hist' = [hist EXCEPT
                  !.call = "fields", !.fields = Some(map),
                  !.replaced = hist.replaced \/
                               (hist.fields.some /\ hist.fields.val # map)]
    /\ UNCHANGED <<clock, result, line, batch, body, response, input, output, op>>

\* builder.tags(map)
Tags(map) ==
    /\ builder # Consumed
    /\ builder' = MeasurementBuilder_tags(builder, map)
    /\ hist' = [hist EXCEPT
                  !.call = "tags", !.tags = Some(map),
                  !.replaced = hist.replaced \/
                               (hist.tags.some /\ hist.tags.val # map)]
    /\ UNCHANGED <<clock, result, line, batch, body, response, input, output, op>>

\* builder.timestamp(instant): the builder is returned, or dropped with the error
Timestamp(instant) ==
    /\ builder # Consumed
    /\ LET r == MeasurementBuilder_timestamp(builder, instant)
       IN  /\ builder' = IF r.tag = "Ok" THEN r.val ELSE Consumed
           /\ result' = IF r.tag = "Ok" THEN result ELSE r
    /\ hist' = [hist EXCEPT
                  !.call = "timestamp", !.timestamp = Some(instant),
                  !.replaced = hist.replaced \/
                               (hist.timestamp.some /\ hist.timestamp.val # instant)]
    /\ UNCHANGED <<clock, line, batch, body, response, input, output, op>>

\* builder.build()
Build ==
    /\ builder # Consumed
    /\ LET b == MeasurementBuilder_build(builder, clock)
           stamped == b.read /\ b.result.tag = "Ok"
       IN  /\ result' = b.result
           /\ hist' = [hist EXCEPT
                         !.call = "build",
                         !.now = IF b.read THEN Some(clock) ELSE None,
                         !.prev = IF stamped THEN hist.cur ELSE hist.prev,
                         !.cur = IF stamped THEN Some(b.result.val.unix_timestamp)
                                 ELSE hist.cur]
    /\ builder' = Consumed
    /\ UNCHANGED <<clock, line, batch, body, response, input, output, op>>

\* measurement.to_string()
Render ==
    /\ result.tag = "Ok"
    /\ line' = Some(Measurement_to_string(result.val))
    /\ hist' = [hist EXCEPT !.call = "to_string"]
    /\ UNCHANGED <<builder, clock, result, batch, body, response, input, output, op>>

\* the system clock moves: SystemTime is not monotonic, and it can be set
Tick ==
    /\ clock' \in Instants \ {clock}
    /\ UNCHANGED <<builder, result, line, hist, batch, body, response,
                   input, output, op>>

Init ==
    /\ builder \in {MeasurementBuilder_new(name) : name \in Names}
    /\ clock \in Instants
    /\ result = NoResult
    /\ line = None
    /\ hist = NoHistory(None, None)
    /\ batch = <<>>
    /\ body = None
    /\ response = NoResult
    /\ input = None
    /\ output = None
    /\ op = "none"

Next ==
    \/ \E name \in Names : NewBuilder(name)
    \/ \E map \in FieldMaps : Fields(map)
    \/ \E map \in TagMaps : Tags(map)
    \/ \E instant \in Instants : Timestamp(instant)
    \/ Build
    \/ Render
    \/ Tick

Spec == Init /\ [][Next]_vars

---------------------------------------------------------------------------
(* Bucket::write.                                                          *)

\* the slices of Measurements write() is given: each one build() can return
WriteMeasurements ==
    { Measurement(n, f, t, ts) :
        n \in {<<LetterM>>, <<Newline, LetterM>>},
        f \in { (<<LetterF>> :> Integer(0 - 12)),
                (<<LetterF, Space>> :> String(<<Quote, LetterA, Newline>>)) @@
                (<<LetterA, Equals>> :> Float(Finite(FALSE, <<1, 5>>, 1))) },
        t \in { <<>>, (<<LetterT, Space>> :> <<LetterA, Comma>>) },
        ts \in {0, MaxTime} }

RECURSIVE SlicesOfLen(_)
SlicesOfLen(n) ==
    IF n = 0 THEN {<<>>}
    ELSE {Append(s, m) : s \in SlicesOfLen(n - 1), m \in WriteMeasurements}

Slices == UNION {SlicesOfLen(n) : n \in 0 .. MaxBatch}

\* a variant that ends every line with a newline
write_body_terminated(measurement) ==
    Join([i \in 1 .. Len(measurement) |->
             Measurement_to_string(measurement[i]) \o <<Newline>>], <<>>)

\* lines.join("\n") of the lines of the Measurements
write_body(measurement) ==
    Join([i \in 1 .. Len(measurement) |-> Measurement_to_string(measurement[i])],
         <<Newline>>)

\* bucket.write(&batch, timeout): the body is sent; what comes back is the
\* server's and the network's choice
Write(outcome) ==
    /\ body' = Some(write_body(batch))
    /\ response' = outcome
    /\ UNCHANGED <<builder, clock, result, line, hist, batch, input, output, op>>

InitWrite ==
    /\ batch \in Slices
    /\ body = None
    /\ response = NoResult
    /\ builder = Consumed
    /\ clock = 0
    /\ result = NoResult
    /\ line = None
    /\ hist = NoHistory(None, None)
    /\ input = None
    /\ output = None
    /\ op = "none"

NextWrite ==
    \E outcome \in {Ok("Response"), Err("ReqwestError")} : Write(outcome)

SpecWrite == InitWrite /\ [][NextWrite]_vars

---------------------------------------------------------------------------
(* The rendering and escaping functions, applied to every input.           *)

Floats ==
    { NaN, Infinity(FALSE), Infinity(TRUE),
      Finite(FALSE, <<>>, 0), Finite(TRUE, <<>>, 0),
      Finite(FALSE, <<1, 5>>, 1), Finite(TRUE, <<2, 5>>, 0 - 1),
      Finite(FALSE, <<1>>, 3), Finite(FALSE, <<1, 2, 3>>, 3) }

IntegerValues == {0 - 120, 0 - 1, 0, 7, 1905}

UIntegerValues == {0, 9, 10, 100, 123}

FieldValues ==
    {Float(f) : f \in Floats} \cup {Integer(i) : i \in IntegerValues} \cup
    {UInteger(u) : u \in UIntegerValues} \cup {String(s) : s \in Strings} \cup
    {Boolean(b) : b \in BOOLEAN}

\* escape_comma_equals_space(s) of a tag key, tag value or field key s
EscapeIdentifier ==
    /\ input.kind = "String"
    /\ output' = Some(escape_comma_equals_space(input.str))
    /\ op' = "escape_comma_equals_space"
    /\ UNCHANGED <<builder, clock, result, line, hist, batch, body, response, input>>

\* the escaped_name of a Measurement named s
EscapeName ==
    /\ input.kind = "String"
    /\ output' = Some(escaped_name(input.str))
    /\ op' = "escaped_name"
    /\ UNCHANGED <<builder, clock, result, line, hist, batch, body, response, input>>

\* value.to_string()
RenderValue ==
    /\ output' = Some(FieldValue_to_string(input))
    /\ op' = "to_string"
    /\ UNCHANGED <<builder, clock, result, line, hist, batch, body, response, input>>

InitRender ==
    /\ input \in FieldValues
    /\ output = None
    /\ op = "none"
    /\ builder = Consumed
    /\ clock = 0
    /\ result = NoResult
    /\ line = None
    /\ hist = NoHistory(None, None)
    /\ batch = <<>>
    /\ body = None
    /\ response = NoResult

NextRender ==
    \/ EscapeIdentifier
    \/ EscapeName
    \/ RenderValue

SpecRender == InitRender /\ [][NextRender]_vars

---------------------------------------------------------------------------
(* What the properties are stated with.                                    *)

\* one pass over s, left to right: a backslash before every trigger character
RECURSIVE SinglePass(_, _)
SinglePass(s, triggers) ==
    IF s = <<>> THEN <<>>
    ELSE (IF Head(s) \in triggers THEN <<Backslash, Head(s)>> ELSE <<Head(s)>>)
         \o SinglePass(Tail(s), triggers)

\* how many characters of s are in cs
Count(s, cs) == Cardinality({i \in 1 .. Len(s) : s[i] \in cs})

\* the number a string of decimal digits denotes
RECURSIVE DecimalValue(_)
DecimalValue(s) ==
    IF s = <<>> THEN 0
    ELSE 10 * DecimalValue(SubSeq(s, 1, Len(s) - 1)) + (s[Len(s)] - Zero)

\* s is the decimal representation of n: digits only, no leading zero
IsDecimalOf(s, n) ==
    /\ Len(s) >= 1
    /\ \A i \in 1 .. Len(s) : s[i] \in Digits
    /\ Len(s) > 1 => s[1] # Zero
    /\ DecimalValue(s) = n

\* s is a decimal number: an optional sign, digits, and optionally a point
\* and more digits
IsDecimalNumber(s) ==
    LET unsigned == IF s # <<>> /\ s[1] = Minus THEN Tail(s) ELSE s
        points == {i \in 1 .. Len(unsigned) : unsigned[i] = Dot}
    IN  /\ unsigned # <<>>
        /\ \A i \in 1 .. Len(unsigned) : unsigned[i] \in Digits \cup {Dot}
        /\ Cardinality(points) <= 1
        /\ \A i \in points : 1 < i /\ i < Len(unsigned)

\* the keys of a map, in ascending order
Ascending(map) ==
    LET n == Cardinality(DOMAIN map)
    IN  CHOOSE ks \in [1 .. n -> DOMAIN map] :
            \A i, j \in 1 .. n : i < j => StrLess(ks[i], ks[j])

\* the strings of a sequence one after the other, a comma before each but the first
RECURSIVE CommaList(_)
CommaList(es) ==
    IF es = <<>> THEN <<>>
    ELSE CommaList(SubSeq(es, 1, Len(es) - 1)) \o
         (IF Len(es) > 1 THEN <<Comma>> ELSE <<>>) \o es[Len(es)]

\* s from its character after the last space on
AfterLastSpace(s) ==
    LET spaces == {i \in 1 .. Len(s) : s[i] = Space}
        last == CHOOSE i \in spaces : \A j \in spaces : j <= i
    IN  IF spaces = {} THEN s ELSE SubSeq(s, last + 1, Len(s))

MissingFields == Err("AtLeastOneMeasurementFieldRequired")

---------------------------------------------------------------------------
(* Properties of the builder (Spec).                                       *)

\* C1: build() returns the missing-fields error exactly when fields() was
\* never called or its last call passed an empty map, and every Measurement
\* build() returns has at least one field.
C1_MissingFieldsExactly ==
    /\ hist.call = "build" =>
          (result = MissingFields <=>
              (~hist.fields.some \/ DOMAIN hist.fields.val = {}))
    /\ result.tag = "Ok" => DOMAIN result.val.fields # {}

\* build() has refused a builder whose fields() was last given an empty map,
\* after an earlier call with a non-empty one
C1_Witness ==
    /\ hist.call = "build"
    /\ hist.fields.some /\ DOMAIN hist.fields.val = {}
    /\ hist.replaced
    /\ result = MissingFields

\* C2: fields(map) and tags(map) replace the whole field set and tag set: the
\* builder holds, and the Measurement built contains, exactly the entries of
\* the last fields() map and of the last tags() map (no tags if tags() was
\* never called); a fields() call leaves tags and timestamp as they were, and
\* a tags() call the fields and the timestamp.
C2_LastCallWins ==
    /\ builder # Consumed =>
          /\ builder.fields = hist.fields
          /\ builder.tags = hist.tags
          /\ builder.unix_timestamp = hist.timestamp
    /\ result.tag = "Ok" =>
          /\ result.val.fields = hist.fields.val
          /\ result.val.tags = (IF hist.tags.some THEN hist.tags.val ELSE <<>>)

\* a Measurement was built after fields() replaced a three-entry map by a
\* one-entry map, tags() having been called as well
C2_Witness ==
    /\ result.tag = "Ok"
    /\ hist.replaced
    /\ hist.tags.some
    /\ Cardinality(DOMAIN result.val.fields) = 1
    /\ Cardinality(DOMAIN result.val.tags) = 2

\* C3: timestamp(instant) of an instant before the epoch fails with
\* SystemTimeError and leaves no builder and no Measurement; of an instant at
\* or after the epoch it succeeds, and the Measurement built then carries and
\* renders exactly the nanoseconds from the epoch to the instant of the last
\* timestamp() call, the clock not being read.
C3_Timestamp ==
    /\ (hist.timestamp.some /\ hist.timestamp.val < 0) =>
          /\ builder = Consumed
          /\ result = Err("SystemTimeError")
          /\ ~line.some
    /\ (hist.call = "timestamp" /\ hist.timestamp.val >= 0) =>
          /\ builder # Consumed
          /\ builder.unix_timestamp = Some(hist.timestamp.val)
          /\ result = NoResult
    /\ (hist.timestamp.some /\ hist.call \in {"build", "to_string"}) =>
          /\ hist.now = None
          /\ result.tag = "Ok" => result.val.unix_timestamp = hist.timestamp.val
          /\ result.tag = "Err" => result = MissingFields
    /\ (hist.timestamp.some /\ line.some) =>
          IsDecimalOf(AfterLastSpace(line.val), hist.timestamp.val)

\* a Measurement is rendered whose timestamp() calls ended with the latest
\* instant, the clock reading something else, even a time before the epoch
C3_Witness ==
    /\ line.some
    /\ hist.replaced
    /\ hist.timestamp = Some(MaxTime)
    /\ clock < 0
    /\ AfterLastSpace(line.val) = ToDecimal(MaxTime)

\* C4 as stated: when timestamp() was never called, build() stamps the
\* Measurement with the clock's reading, and the default timestamps of
\* sequential builds are strictly increasing.
C4_StrictlyIncreasing ==
    /\ (hist.call = "build" /\ result.tag = "Ok" /\ ~hist.timestamp.some) =>
          hist.now = Some(result.val.unix_timestamp)
    /\ (hist.prev.some /\ hist.cur.some) => hist.prev.val < hist.cur.val

\* C4, amended: when timestamp() was never called and the fields are not
\* empty, build() reads the clock once and returns the Measurement stamped with
\* that reading, or SystemTimeError if the reading is before the epoch; the
\* default timestamps of sequential builds are these readings, in no order
\* the code enforces.
C4_ClockReading ==
    /\ (hist.call = "build" /\ ~hist.timestamp.some
            /\ hist.fields.some /\ DOMAIN hist.fields.val # {}) =>
          /\ hist.now.some
          /\ hist.now.val >= 0 =>
                result = Ok(Measurement(result.val.name, hist.fields.val,
                                        result.val.tags, hist.now.val))
          /\ hist.now.val < 0 => result = Err("SystemTimeError")
    /\ (hist.call = "build" /\ result.tag = "Ok" /\ ~hist.timestamp.some) =>
          hist.cur = Some(result.val.unix_timestamp)

\* two sequential builds took their timestamps from the clock, and the second
\* is not later than the first
C4_Witness ==
    /\ hist.call = "build"
    /\ result.tag = "Ok"
    /\ ~hist.timestamp.some
    /\ hist.prev.some
    /\ hist.cur.val <= hist.prev.val

\* C5: to_string() is the escaped name; then, only if there are tags, a comma
\* and the key=value tags in ascending key order, joined by commas; a space;
\* the key=value fields in ascending key order, joined by commas; a space;
\* the timestamp in decimal; and nothing else.
C5_LineFormat ==
    line.some =>
        LET m == result.val
            tk == Ascending(m.tags)
            fk == Ascending(m.fields)
            ident == {Comma, Equals, Space}
            tagList == [i \in 1 .. Len(tk) |->
                           SinglePass(tk[i], ident) \o <<Equals>> \o
                           SinglePass(m.tags[tk[i]], ident)]
            fieldList == [i \in 1 .. Len(fk) |->
                             SinglePass(fk[i], ident) \o <<Equals>> \o
                             FieldValue_to_string(m.fields[fk[i]])]
            front == SinglePass(m.name, {Comma, Space}) \o
                     (IF DOMAIN m.tags = {} THEN <<>>
                      ELSE <<Comma>> \o CommaList(tagList)) \o
                     <<Space>> \o CommaList(fieldList) \o <<Space>>
        IN  /\ Len(line.val) > Len(front)
            /\ SubSeq(line.val, 1, Len(front)) = front
            /\ IsDecimalOf(SubSeq(line.val, Len(front) + 1, Len(line.val)),
                           m.unix_timestamp)

\* a Measurement with three fields and no tags is rendered
C5_Witness ==
    /\ line.some
    /\ DOMAIN result.val.tags = {}
    /\ Cardinality(DOMAIN result.val.fields) = 3
    /\ Count(result.val.name, {Space}) = 1

---------------------------------------------------------------------------
(* Properties of Bucket::write (SpecWrite).                                *)

\* the lines of the Measurements of the slice
BatchLines == [i \in 1 .. Len(batch) |-> Measurement_to_string(batch[i])]

\* the length of the first n lines and of the separators after each
RECURSIVE Offset(_)
Offset(n) == IF n = 0 THEN 0 ELSE Offset(n - 1) + Len(BatchLines[n]) + 1

---------------------------------------------------------------------------
(* Properties of the rendering and escaping functions (SpecRender).        *)

\* C7: a String field value renders as a double quote, the input with every
\* backslash doubled and a backslash put before every double quote, all other
\* characters unchanged, and a double quote; no inserted backslash is escaped
\* again: backslash-quote renders as three backslashes and a quote.
C7_StringFieldValue ==
    (op = "to_string" /\ input.kind = "String") =>
        /\ output.val = <<Quote>> \o SinglePass(input.str, {Backslash, Quote})
                        \o <<Quote>>
        /\ input.str = <<Backslash, Quote>> =>
              output.val = <<Quote, Backslash, Backslash, Backslash, Quote, Quote>>
        /\ Len(output.val) = Len(input.str) + Count(input.str, {Backslash, Quote}) + 2
        /\ Count(output.val, {Rocket}) = Count(input.str, {Rocket})

\* the String value backslash-quote is rendered
C7_Witness ==
    /\ op = "to_string"
    /\ input = String(<<Backslash, Quote>>)
    /\ output = Some(<<Quote, Backslash, Backslash, Backslash, Quote, Quote>>)

\* C8: in a rendered name every comma and every space has a backslash put
\* before it and every equals sign stays as it is; in a tag key, tag value or
\* field key every equals sign has a backslash put before it as well.
C8_NameKeepsEquals ==
    LET follows(c) == {i \in 1 .. Len(output.val) :
                          output.val[i] = c /\ i > 1 /\ output.val[i - 1] = Backslash}
        inserted(cs) == Len(output.val) - Len(input.str) = Count(input.str, cs)
    IN  /\ op = "escaped_name" =>
              /\ inserted({Comma, Space})
              /\ \A c \in {Comma, Space} :
                    Cardinality(follows(c)) = Count(input.str, {c})
              /\ Count(output.val, {Equals}) = Count(input.str, {Equals})
              /\ Replace(output.val, Backslash, <<>>)
                    = Replace(input.str, Backslash, <<>>)
              /\ Count(input.str, {Backslash}) = 0 =>
                    follows(Equals) = {}
        /\ op = "escape_comma_equals_space" =>
              /\ inserted({Comma, Equals, Space})
              /\ \A c \in {Comma, Equals, Space} :
                    Cardinality(follows(c)) = Count(input.str, {c})

\* a name with an equals sign and a comma is rendered
C8_Witness ==
    /\ op = "escaped_name"
    /\ input.str = <<LetterA, Equals, Comma>>
    /\ output.val = <<LetterA, Equals, Backslash, Comma>>

\* C9 as stated: rendering is total and type-tagged: an Integer is its
\* decimal representation and i, a UInteger its decimal digits and u, a
\* Boolean t or f, a Float a decimal number with no suffix, a String
\* double-quoted escaped text.
C9_TypeTagged ==
    op = "to_string" =>
        LET out == output.val
            most == SubSeq(out, 1, Len(out) - 1)
        IN  /\ output.some
            /\ input.kind = "Integer" =>
                  /\ out[Len(out)] = LetterI
                  /\ IF input.int < 0
                     THEN most[1] = Minus /\ IsDecimalOf(Tail(most), 0 - input.int)
                     ELSE IsDecimalOf(most, input.int)
            /\ input.kind = "UInteger" =>
                  out[Len(out)] = LetterU /\ IsDecimalOf(most, input.int)
            /\ input.kind = "Boolean" =>
                  out = (IF input.bool THEN <<LetterT>> ELSE <<LetterF>>)
            /\ input.kind = "Float" => IsDecimalNumber(out)
            /\ input.kind = "String" =>
                  /\ Len(out) >= 2
                  /\ out[1] = Quote /\ out[Len(out)] = Quote

\* C10: escape_comma_equals_space returns what one pass from left to right
\* returns that puts a backslash before every comma, equals sign and space and
\* copies every other character: nothing is escaped twice, a string with none
\* of the three is returned unchanged, and other characters, non-ASCII too,
\* pass through.
C10_SinglePass ==
    op = "escape_comma_equals_space" =>
        /\ output.val = SinglePass(input.str, {Comma, Equals, Space})
        /\ Count(input.str, {Comma, Equals, Space}) = 0 => output.val = input.str
        /\ Count(output.val, {Backslash}) =
              Count(input.str, {Backslash}) + Count(input.str, {Comma, Equals, Space})
        /\ Count(output.val, {Rocket}) = Count(input.str, {Rocket})

\* a string with a comma, a backslash and an equals sign is escaped
C10_Witness ==
    /\ op = "escape_comma_equals_space"
    /\ input.str = <<Comma, Backslash, Equals>>
    /\ output.val = <<Backslash, Comma, Backslash, Backslash, Equals>>

===========================================================================
